---- MODULE Spec2Model ----
(***************************************************************************)
(* gridio-web data scripts: the production / consumption merge pipelines,  *)
(* the price pipeline, the day-range driver and the frequency splitter.    *)
(*                                                                         *)
(* Strings that the code compares, sorts or slices are sequences of ASCII  *)
(* codes, so that lexicographic order and slicing are those of Python.     *)
(* A Python float is a record [hi, lo] standing for hi * 2^53 + lo with    *)
(* |lo| far below 2^52: on such values FAdd is IEEE-754 binary64 addition  *)
(* (round to nearest, ties to even).                                       *)
(***************************************************************************)
EXTENDS Integers, Sequences, FiniteSets, TLC

VARIABLES
    \* fetch_production.py / fetch_consumption.py
    domain,     \* "production" or "consumption": which of the two scripts runs
    rows,       \* the records returned by the fetch
    idx,        \* number of records the loop of merge_rows has consumed
    merged,     \* dict ts_utc -> bucket
    ordered,    \* buckets in sorted key order
    written,    \* rows written, per output target
    pcM,        \* "fetch", "merge", "write", "done", "aborted"; "idle" when not run
    \* the environment of a fetch
    dayKind,    \* the fetched day is "normal", "fallback" or "spring" in Europe/Stockholm
    hostTz,     \* the local time zone of the machine: "UTC" or "Europe/Stockholm"
    \* fetch_prices.py
    fcrText,    \* the CSV text returned by fetch_fcr_csv
    reader,     \* parse_fcr_n_prices: the lines the csv reader has not yielded yet
    idxTime,    \* parse_fcr_n_prices: idx_time (from 1)
    idxPrice,   \* parse_fcr_n_prices: idx_fcr_n_price (from 1)
    fcr,        \* dict time -> formatted FCR-N price
    esettRows,  \* the records returned by fetch_esett_prices
    eidx,       \* number of records the loop of parse_esett_price_rows has consumed
    dayAhead,   \* dict time -> formatted day-ahead price
    imbalanceUp,    \* dict time -> formatted imbalance price
    imbalanceDown,  \* dict time -> formatted imbalance price
    priceWritten,   \* rows written, per output target
    pcP,        \* "fetch_fcr", "fcr_header", "fcr_rows", "fetch_esett", "esett_rows",
                \* "done", "aborted"; "idle" when not run
    \* fetch_all.py
    argv,       \* the arguments start_day and end_day
    start_day,  \* parsed start day
    end_day,    \* parsed end day
    current_day,    \* the day of the loop over iter_days
    launched,   \* number of subprocesses of current_day started
    waitPos,    \* number of subprocesses of current_day waited for
    procs,      \* per day and script: state, return code, waited for
    exit_code,  \* exit_code of main
    pcD,        \* "args", "day", "exited", "rejected"; "idle" when not run
    \* split_frequency_data.py
    inputFile,  \* the input: whether it exists, its column names, its rows
    srcPos,     \* number of rows the loop has consumed
    writers,    \* the days that have a writer
    open_files, \* the days that have a file handle, in order of opening
    closed,     \* number of file handles closed
    outFiles,   \* the lines of output_root/day/frequency.csv, per day
    rows_by_day,    \* rows written, per day
    bad_rows,   \* rows skipped
    pcS         \* "start", "rows", "done", "exit"; "idle" when not run

varsM == <<domain, rows, idx, merged, ordered, written, pcM>>

varsE == <<dayKind, hostTz>>

varsP == <<fcrText, reader, idxTime, idxPrice, fcr, esettRows, eidx, dayAhead,
           imbalanceUp, imbalanceDown, priceWritten, pcP>>

varsD == <<argv, start_day, end_day, current_day, launched, waitPos, procs, exit_code, pcD>>

varsS == <<inputFile, srcPos, writers, open_files, closed, outFiles, rows_by_day,
           bad_rows, pcS>>

vars == <<varsM, varsE, varsP, varsD, varsS>>

----------------------------------------------------------------------------
(* Bounds *)

MaxRows == 3

MaxEsett == 2

MaxDays == 2

MaxInput == 4

----------------------------------------------------------------------------
(* Strings as sequences of ASCII codes *)

Null == [t |-> "null"]

EmptyStr == <<>>

TwoDigits(n) == <<48 + (n \div 10), 48 + (n % 10)>>

\* "%H:%M:%S"
Strftime(h, m, s) == TwoDigits(h) \o <<58>> \o TwoDigits(m) \o <<58>> \o TwoDigits(s)

\* Python's str comparison: lexicographic on code points, a proper prefix is smaller.
RECURSIVE StrLess(_, _)
StrLess(a, b) ==
    IF b = <<>> THEN FALSE
    ELSE IF a = <<>> THEN TRUE
    ELSE IF Head(a) # Head(b) THEN Head(a) < Head(b)
    ELSE StrLess(Tail(a), Tail(b))

StrLeq(a, b) == a = b \/ StrLess(a, b)

\* sorted(S) for a finite set of strings
RECURSIVE SortedStrs(_)
SortedStrs(S) ==
    IF S = {} THEN <<>>
    ELSE LET least == CHOOSE x \in S : \A y \in S : StrLeq(x, y)
         IN  <<least>> \o SortedStrs(S \ {least})

----------------------------------------------------------------------------
(* Python floats *)

Num(h, l) == [hi |-> h, lo |-> l]

Zero == Num(0, 0)

FIsNeg(x) == x.hi < 0 \/ (x.hi = 0 /\ x.lo < 0)

FNeg(x) == Num(-x.hi, -x.lo)

\* abs()
FAbs(x) == IF FIsNeg(x) THEN FNeg(x) ELSE x

\* l rounded to the nearest multiple of u, ties to the even multiple
RoundHalfEven(l, u) ==
    LET q == l \div u
        r == l - q * u
    IN  IF 2 * r < u THEN q * u
        ELSE IF 2 * r > u THEN (q + 1) * u
        ELSE IF q % 2 = 0 THEN q * u ELSE (q + 1) * u

\* the spacing of binary64 values around hf * 2^53 + (a small non-negative rest)
RECURSIVE Ulp(_)
Ulp(hf) == IF hf = 0 THEN 1 ELSE 2 * Ulp(hf \div 2)

\* a non-negative exact value rounded to binary64
RoundPos(x) ==
    LET hf == IF x.lo < 0 THEN x.hi - 1 ELSE x.hi
    IN  IF x.hi = 0 THEN x ELSE Num(x.hi, RoundHalfEven(x.lo, Ulp(hf)))

FRound(x) == IF FIsNeg(x) THEN FNeg(RoundPos(FNeg(x))) ELSE RoundPos(x)

\* float + float
FAdd(a, b) == FRound(Num(a.hi + b.hi, a.lo + b.lo))

----------------------------------------------------------------------------
(* Production / consumption: the records the eSett API returns *)

\* JSON values of a record
NumVal(x) == [t |-> "num", v |-> x]

TextVal(chars) == [t |-> "text", chars |-> chars]

\* a timestamp string that datetime.fromisoformat accepts, wall clock h:m:s; aware
\* when the string carries a utcoffset (Z or +hh:mm), of off minutes
IsoVal(h, m, s, aware, off) ==
    [t |-> "iso", h |-> h, m |-> m, s |-> s, aware |-> aware, off |-> off]

Big == Num(1, 0)

\* "n/a", "12", "about 02:30"
TextNA == <<110, 47, 97>>

Text12 == <<49, 50>>

TextAbout == <<97, 98, 111, 117, 116, 32, 48, 50, 58, 51, 48>>

\* Half-hour slots after 00:00 UTC of the fetched day; Europe/Stockholm changes its
\* offset at 01:00 UTC on a transition day.
UtcSlots == {1, 2, 3}

DayOfMonth(kind) ==
    CASE kind = "fallback" -> 27
      [] kind = "spring" -> 31
      [] OTHER -> 15

\* utcoffset of Europe/Stockholm, in minutes, utc minutes after 00:00 UTC of a day
\* of this kind
StockholmOffset(kind, utc) ==
    CASE kind = "fallback" -> IF utc < 60 THEN 120 ELSE 60
      [] kind = "spring" -> IF utc < 60 THEN 60 ELSE 120
      [] OTHER -> 60

\* the record's timestampUTC string, from the day of the month on: "27T00:30:00Z"
UtcStr(kind, s) ==
    TwoDigits(DayOfMonth(kind)) \o <<84>>
        \o Strftime((s * 30) \div 60, (s * 30) % 60, 0) \o <<90>>

\* the record's timestamp string: the Stockholm wall clock of the same instant
LocalIso(kind, s) ==
    LET mins == s * 30 + StockholmOffset(kind, s * 30)
    IN  IsoVal((mins \div 60) % 24, mins % 60, 0, FALSE, 0)

ProductionFields ==
    << [out |-> "hydro", src |-> "hydro"],
       [out |-> "nuclear", src |-> "nuclear"],
       [out |-> "solar", src |-> "solar"],
       [out |-> "thermal", src |-> "thermal"],
       [out |-> "wind", src |-> "wind"],
       [out |-> "wind_offshore", src |-> "windOffshore"],
       [out |-> "energy_storage", src |-> "energyStorage"],
       [out |-> "other", src |-> "other"],
       [out |-> "total", src |-> "total"] >>

ConsumptionFields ==
    << [out |-> "flex", src |-> "flex"],
       [out |-> "metered", src |-> "metered"],
       [out |-> "profiled", src |-> "profiled"],
       [out |-> "total", src |-> "total"] >>

Fields(dom) == IF dom = "production" THEN ProductionFields ELSE ConsumptionFields

\* the position of the += line of each output column
ProductionIndex ==
    [c \in {ProductionFields[i].out : i \in 1..Len(ProductionFields)} |->
        CHOOSE i \in 1..Len(ProductionFields) : ProductionFields[i].out = c]

ConsumptionIndex ==
    [c \in {ConsumptionFields[i].out : i \in 1..Len(ConsumptionFields)} |->
        CHOOSE i \in 1..Len(ConsumptionFields) : ConsumptionFields[i].out = c]

FieldIndex(dom) == IF dom = "production" THEN ProductionIndex ELSE ConsumptionIndex

OutNames(dom) == {Fields(dom)[i].out : i \in 1..Len(Fields(dom))}

SrcNames(dom) == {Fields(dom)[i].src : i \in 1..Len(Fields(dom))}

\* A record of the API response; a and b are the values of its first field and of
\* "total", every other field is null; no timestampUTC when tsUTC is empty.
RawRow(dom, tsUTC, ts, a, b) ==
    [ timestampUTC |-> IF tsUTC = EmptyStr THEN Null ELSE TextVal(tsUTC),
      timestamp |-> ts,
      vals |-> [k \in SrcNames(dom) |->
                  IF k = Fields(dom)[1].src THEN a
                  ELSE IF k = "total" THEN b
                  ELSE Null] ]

\* Records as the API delivers them: both timestamps of one instant of the day.
WellFormedRows(dom, kind) ==
    {RawRow(dom, UtcStr(kind, 1), LocalIso(kind, 1), NumVal(Big), Null)}
    \cup {RawRow(dom, UtcStr(kind, s), LocalIso(kind, s), NumVal(Num(0, 1)), NumVal(Num(0, 2))) :
        s \in UtcSlots}
    \cup {RawRow(dom, UtcStr(kind, 2), LocalIso(kind, 2), NumVal(Num(0, -1)), TextVal(Text12))}

\* Records with a defect: no timestampUTC, no timestamp, a timestamp that is no ISO
\* string, a value that is no number (first field, last field).
DefectRows(dom, kind) ==
    { RawRow(dom, EmptyStr, LocalIso(kind, 1), NumVal(Num(0, 1)), Null),
      RawRow(dom, UtcStr(kind, 1), Null, NumVal(Num(0, 1)), Null),
      RawRow(dom, UtcStr(kind, 2), TextVal(TextAbout), NumVal(Num(0, 1)), Null),
      RawRow(dom, UtcStr(kind, 1), LocalIso(kind, 1), TextVal(TextNA), Null),
      RawRow(dom, UtcStr(kind, 1), LocalIso(kind, 1), NumVal(Num(0, 1)), TextVal(TextNA)) }

RowPool(dom, kind) == WellFormedRows(dom, kind) \cup DefectRows(dom, kind)

SeqsUpTo(S, n) == UNION {[1..k -> S] : k \in 0..n}

----------------------------------------------------------------------------
(* Production / consumption: merge_rows and main *)

EmptyDict == [k \in {} |-> Null]

\* fetch_prices.py is not run
IdleP ==
    /\ fcrText = <<>>
    /\ reader = <<>>
    /\ idxTime = 0
    /\ idxPrice = 0
    /\ fcr = EmptyDict
    /\ esettRows = <<>>
    /\ eidx = 0
    /\ dayAhead = EmptyDict
    /\ imbalanceUp = EmptyDict
    /\ imbalanceDown = EmptyDict
    /\ priceWritten = [target \in {} |-> <<>>]
    /\ pcP = "idle"

\* fetch_all.py is not run
IdleD ==
    /\ argv = [start_day |-> 0, end_day |-> 0]
    /\ start_day = 0
    /\ end_day = 0
    /\ current_day = 0
    /\ launched = 0
    /\ waitPos = 0
    /\ procs = [d \in {} |-> Null]
    /\ exit_code = 0
    /\ pcD = "idle"

\* split_frequency_data.py is not run
IdleS ==
    /\ inputFile = [exists |-> FALSE, fieldnames |-> {}, rows |-> <<>>]
    /\ srcPos = 0
    /\ writers = {}
    /\ open_files = <<>>
    /\ closed = 0
    /\ outFiles = [day \in {} |-> <<>>]
    /\ rows_by_day = [day \in {} |-> 0]
    /\ bad_rows = 0
    /\ pcS = "idle"

\* Python truthiness of a JSON value: None, 0 and "" are falsy
Falsy(v) ==
    \/ v.t = "null"
    \/ (v.t = "num" /\ v.v = Zero)
    \/ (v.t = "text" /\ v.chars = <<>>)

IsDigits(chars) == chars # <<>> /\ \A i \in 1..Len(chars) : chars[i] \in 48..57

RECURSIVE DigitsValue(_)
DigitsValue(chars) ==
    IF chars = <<>> THEN 0
    ELSE 10 * DigitsValue(SubSeq(chars, 1, Len(chars) - 1)) + (chars[Len(chars)] - 48)

\* float(v or 0.0) raises ValueError
FloatRaises(v) == ~Falsy(v) /\ v.t = "text" /\ ~IsDigits(v.chars)

\* float(v or 0.0)
ToFloat(v) ==
    IF Falsy(v) THEN Zero
    ELSE IF v.t = "num" THEN v.v
    ELSE Num(0, DigitsValue(v.chars))

\* value[-8:] if len(value) >= 8 else ""
LastEight(chars) ==
    IF Len(chars) >= 8 THEN SubSeq(chars, Len(chars) - 7, Len(chars)) ELSE EmptyStr

\* local_time_hms(row.get("timestamp") or "") of fetch_production / fetch_consumption
LocalTimeHms(v) ==
    IF Falsy(v) THEN EmptyStr
    ELSE IF v.t = "iso" THEN Strftime(v.h, v.m, v.s)
    ELSE LastEight(v.chars)

NewBucket(dom) ==
    [c \in {"time"} \cup OutNames(dom) |-> IF c = "time" THEN EmptyStr ELSE Zero]

\* what one record contributes to a column
Contribution(dom, x) == IF dom = "consumption" THEN FAbs(x) ELSE x

\* bucket[out] = ... in place of +=
AccumulateOverwrites(old, x) == x

\* bucket[out] += ...
Accumulate(old, x) == FAdd(old, x)

\* index of the first field whose float() raises, 0 when none does
FirstRaising(dom, row) ==
    LET bad == {i \in 1..Len(Fields(dom)) : FloatRaises(row.vals[Fields(dom)[i].src])}
    IN  IF bad = {} THEN 0 ELSE CHOOSE i \in bad : \A j \in bad : i <= j

\* the bucket after the += lines of fields 1..n
AddFields(dom, bucket, row, n) ==
    [c \in DOMAIN bucket |->
        IF c # "time" /\ FieldIndex(dom)[c] <= n
        THEN Accumulate(bucket[c],
                        Contribution(dom, ToFloat(row.vals[Fields(dom)[FieldIndex(dom)[c]].src])))
        ELSE bucket[c]]

\* merged[ts_utc] = {...} in place of setdefault
SetDefaultResets(m, key, dom) ==
    [k \in DOMAIN m \cup {key} |-> IF k = key THEN NewBucket(dom) ELSE m[k]]

\* merged.setdefault(ts_utc, {...})
SetDefault(m, key, dom) == IF key \in DOMAIN m THEN m ELSE m @@ (key :> NewBucket(dom))

\* one iteration of the loop body for a record with a truthy timestampUTC, the +=
\* lines of fields 1..n done
MergeOne(dom, m, row, n) ==
    LET key == row.timestampUTC.chars
        m1 == SetDefault(m, key, dom)
        b1 == [m1[key] EXCEPT !["time"] = LocalTimeHms(row.timestamp)]
    IN  [m1 EXCEPT ![key] = AddFields(dom, b1, row, n)]

NoKey(row) == Falsy(row.timestampUTC)

\* fetch_production / fetch_consumption: the API's response
Fetch ==
    /\ pcM = "fetch"
    /\ rows' \in SeqsUpTo(RowPool(domain, dayKind), MaxRows)
    /\ pcM' = "merge"
    /\ UNCHANGED <<domain, idx, merged, ordered, written, varsE, varsP, varsD, varsS>>

\* if not ts_utc: continue
MergeSkip ==
    /\ pcM = "merge" /\ idx < Len(rows)
    /\ NoKey(rows[idx + 1])
    /\ idx' = idx + 1
    /\ UNCHANGED <<domain, rows, merged, ordered, written, pcM, varsE, varsP, varsD, varsS>>

\* the loop body, no float() raising
MergeAdd ==
    /\ pcM = "merge" /\ idx < Len(rows)
    /\ ~NoKey(rows[idx + 1])
    /\ FirstRaising(domain, rows[idx + 1]) = 0
    /\ merged' = MergeOne(domain, merged, rows[idx + 1], Len(Fields(domain)))
    /\ idx' = idx + 1
    /\ UNCHANGED <<domain, rows, ordered, written, pcM, varsE, varsP, varsD, varsS>>

\* the loop body, a float() raising ValueError: nothing catches it, main ends
MergeRaise ==
    /\ pcM = "merge" /\ idx < Len(rows)
    /\ ~NoKey(rows[idx + 1])
    /\ FirstRaising(domain, rows[idx + 1]) # 0
    /\ merged' = MergeOne(domain, merged, rows[idx + 1],
                          FirstRaising(domain, rows[idx + 1]) - 1)
    /\ pcM' = "aborted"
    /\ UNCHANGED <<domain, rows, idx, ordered, written, varsE, varsP, varsD, varsS>>

\* return merged; ordered = [merged[key] for key in sorted(merged.keys())]
SortBuckets ==
    /\ pcM = "merge" /\ idx = Len(rows)
    /\ ordered' = [i \in 1..Cardinality(DOMAIN merged) |->
                      merged[SortedStrs(DOMAIN merged)[i]]]
    /\ pcM' = "write"
    /\ UNCHANGED <<domain, rows, idx, merged, written, varsE, varsP, varsD, varsS>>

\* writer.writeheader(); writer.writerows(ordered), to both targets
WriteTargets ==
    /\ pcM = "write"
    /\ written' = [target \in {"public", "raw"} |-> ordered]
    /\ pcM' = "done"
    /\ UNCHANGED <<domain, rows, idx, merged, ordered, varsE, varsP, varsD, varsS>>

IdleM ==
    /\ domain = "production"
    /\ rows = <<>>
    /\ idx = 0
    /\ merged = EmptyDict
    /\ ordered = <<>>
    /\ written = [target \in {} |-> <<>>]
    /\ pcM = "idle"

InitM ==
    /\ domain \in {"production", "consumption"}
    /\ dayKind \in {"normal", "fallback", "spring"}
    /\ hostTz = "UTC"
    /\ IdleP
    /\ IdleD
    /\ IdleS
    /\ rows = <<>>
    /\ idx = 0
    /\ merged = EmptyDict
    /\ ordered = <<>>
    /\ written = [target \in {} |-> <<>>]
    /\ pcM = "fetch"

NextM == Fetch \/ MergeSkip \/ MergeAdd \/ MergeRaise \/ SortBuckets \/ WriteTargets

Spec == InitM /\ [][NextM]_vars

----------------------------------------------------------------------------
(* Production / consumption: properties *)

HasKey(row, key) == ~Falsy(row.timestampUTC) /\ row.timestampUTC.chars = key

KeysOf(rs) == {rs[i].timestampUTC.chars : i \in {j \in 1..Len(rs) : ~Falsy(rs[j].timestampUTC)}}

\* the value a record reports for a field: absent or null is 0, consumption counts
\* the magnitude
ReportedValue(dom, v) ==
    LET x == IF v.t = "num" THEN v.v
             ELSE IF v.t = "text" /\ IsDigits(v.chars) THEN Num(0, DigitsValue(v.chars))
             ELSE Zero
    IN  IF dom = "consumption" /\ FIsNeg(x) THEN FNeg(x) ELSE x

\* the float sum, in record order, of what the records rs[1..n] with this key report
RECURSIVE SumOfReported(_, _, _, _, _)
SumOfReported(dom, rs, key, src, n) ==
    IF n = 0 THEN Zero
    ELSE IF HasKey(rs[n], key)
         THEN FAdd(SumOfReported(dom, rs, key, src, n - 1), ReportedValue(dom, rs[n].vals[src]))
         ELSE SumOfReported(dom, rs, key, src, n - 1)

\* C1: while merge_rows runs and after it returned, the buckets are exactly the
\* non-empty timestampUTC values of the records consumed, one bucket each, and every
\* numeric column of a bucket is the sum (float addition, in record order) of what
\* the consumed records with that key report for the column (null as 0, consumption
\* as magnitude): nothing is overwritten. The rows written are one per bucket.
C1_BucketsHoldSums ==
    /\ pcM \in {"merge", "write", "done"} =>
          /\ DOMAIN merged = KeysOf(SubSeq(rows, 1, idx))
          /\ \A k \in DOMAIN merged : \A i \in 1..Len(Fields(domain)) :
                merged[k][Fields(domain)[i].out] =
                    SumOfReported(domain, rows, k, Fields(domain)[i].src, idx)
    /\ pcM = "done" =>
          \A target \in DOMAIN written :
              /\ Len(written[target]) = Cardinality(KeysOf(rows))
              /\ \A k \in KeysOf(rows) : \E i \in 1..Len(written[target]) :
                    \A f \in 1..Len(Fields(domain)) :
                        written[target][i][Fields(domain)[f].out] =
                            SumOfReported(domain, rows, k, Fields(domain)[f].src, Len(rows))

\* C1 witness: two zones report 1 and -1 for one instant next to another instant's
\* record; the run is done and the bucket holds 0 (production) or 2 (consumption).
C1_Witness ==
    /\ pcM = "done"
    /\ Cardinality(DOMAIN merged) = 2
    /\ \E k \in DOMAIN merged :
          /\ \E i, j \in 1..Len(rows) :
                /\ i < j /\ HasKey(rows[i], k) /\ HasKey(rows[j], k)
                /\ rows[i].vals[Fields(domain)[1].src] = NumVal(Num(0, 1))
                /\ rows[j].vals[Fields(domain)[1].src] = NumVal(Num(0, -1))
          /\ merged[k][Fields(domain)[1].out] =
                IF domain = "consumption" THEN Num(0, 2) ELSE Zero

TimesOf(bs) == [i \in 1..Len(bs) |-> bs[i]["time"]]

\* C4 (as claimed): a run whose records carry only per-record defects is never
\* aborted (every record of RowPool is well formed or has a per-record defect).
C4_NeverAborted == pcM # "aborted"

AllWellFormed(rs) == \A i \in 1..Len(rs) : rs[i] \in WellFormedRows(domain, dayKind)

\* C2 (as claimed, for records as the API delivers them, which the claim covers):
\* no two rows written carry the same value in the time column.
C2_TimeKeysUnique ==
    (pcM = "done" /\ AllWellFormed(rows)) =>
        \A target \in DOMAIN written : \A i, j \in 1..Len(written[target]) :
            i # j => written[target][i]["time"] # written[target][j]["time"]

\* C9 (as claimed): for records of one local day as the API delivers them, the rows
\* written in UTC key order have a non-decreasing time column.
C9_TimeColumnNonDecreasing ==
    (pcM = "done" /\ AllWellFormed(rows)) =>
        \A target \in DOMAIN written : \A i \in 1..(Len(written[target]) - 1) :
            StrLeq(written[target][i]["time"], written[target][i + 1]["time"])

----------------------------------------------------------------------------
(* Production / consumption: merging a permuted input *)

Orderings(n) == {p \in [1..n -> 1..n] : \A i, j \in 1..n : i # j => p[i] # p[j]}

Permuted(rs, p) == [i \in 1..Len(rs) |-> rs[p[i]]]

\* merge_rows on the records rs[1..n], none of which raises
RECURSIVE MergeRows(_, _, _)
MergeRows(dom, rs, n) ==
    IF n = 0 THEN EmptyDict
    ELSE IF NoKey(rs[n]) THEN MergeRows(dom, rs, n - 1)
    ELSE MergeOne(dom, MergeRows(dom, rs, n - 1), rs[n], Len(Fields(dom)))

NumericColumns(dom, m) == [k \in DOMAIN m |-> [c \in OutNames(dom) |-> m[k][c]]]

\* every value reported is an integer of magnitude far below 2^53: each += is exact
AllExact(dom, rs) ==
    \A i \in 1..Len(rs) : \A k \in SrcNames(dom) : ReportedValue(dom, rs[i].vals[k]).hi = 0

\* C3 (as claimed): when the run is done, every permutation of the records merges to
\* the same buckets with identical numeric column sums.
C3_MergeCommutes ==
    pcM = "done" =>
        \A p \in Orderings(Len(rows)) :
            NumericColumns(domain, MergeRows(domain, Permuted(rows, p), Len(rows)))
                = NumericColumns(domain, merged)

\* C3 (amended): when the run is done, every permutation of the records merges to
\* the same set of bucket keys, and to identical numeric column sums when every
\* addition is exact.
C3_MergeCommutesWhenExact ==
    pcM = "done" =>
        \A p \in Orderings(Len(rows)) :
            LET other == MergeRows(domain, Permuted(rows, p), Len(rows))
            IN  /\ DOMAIN other = DOMAIN merged
                /\ AllExact(domain, rows) =>
                      NumericColumns(domain, other) = NumericColumns(domain, merged)

\* C3 witness: three records, every addition exact, two of them reporting
\* different values for one instant; merged and written.
C3_Witness ==
    /\ pcM = "done"
    /\ Len(rows) = 3
    /\ AllExact(domain, rows)
    /\ \E i, j \in 1..3 :
          /\ i # j
          /\ ~NoKey(rows[i]) /\ rows[i].timestampUTC = rows[j].timestampUTC
          /\ rows[i].vals[Fields(domain)[1].src] # rows[j].vals[Fields(domain)[1].src]
          /\ rows[i].vals["total"] # rows[j].vals["total"]

----------------------------------------------------------------------------
(* Prices: text helpers *)

\* text.lstrip("﻿")
RECURSIVE LStripBom(_)
LStripBom(text) ==
    IF text # <<>> /\ Head(text) = 65279 THEN LStripBom(Tail(text)) ELSE text

\* the pieces of text between occurrences of sep
RECURSIVE SplitAt(_, _)
SplitAt(text, sep) ==
    IF \A i \in 1..Len(text) : text[i] # sep THEN <<text>>
    ELSE LET i == CHOOSE j \in 1..Len(text) :
                      text[j] = sep /\ \A k \in 1..(j - 1) : text[k] # sep
         IN  <<SubSeq(text, 1, i - 1)>> \o SplitAt(SubSeq(text, i + 1, Len(text)), sep)

\* text.splitlines(), for "\n" line ends
SplitLines(text) ==
    IF text = <<>> THEN <<>>
    ELSE LET parts == SplitAt(text, 10)
         IN  IF parts[Len(parts)] = <<>> THEN SubSeq(parts, 1, Len(parts) - 1) ELSE parts

\* what csv.reader(lines, delimiter=";") yields for a line without quotes
CsvCells(line) == IF line = <<>> THEN <<>> ELSE SplitAt(line, 59)

IsSpace(c) == c \in {9, 10, 13, 32}

RECURSIVE LStrip(_)
LStrip(text) == IF text # <<>> /\ IsSpace(Head(text)) THEN LStrip(Tail(text)) ELSE text

RECURSIVE RStrip(_)
RStrip(text) ==
    IF text # <<>> /\ IsSpace(text[Len(text)])
    THEN RStrip(SubSeq(text, 1, Len(text) - 1))
    ELSE text

\* str.strip()
Strip(text) == RStrip(LStrip(text))

\* str.lower(), ASCII
Lower(text) == [i \in 1..Len(text) |-> IF text[i] \in 65..90 THEN text[i] + 32 ELSE text[i]]

\* list.index(x) counted from 1; 0 stands for ValueError
IndexOf(list, x) ==
    IF \A i \in 1..Len(list) : list[i] # x THEN 0
    ELSE CHOOSE i \in 1..Len(list) : list[i] = x /\ \A k \in 1..(i - 1) : list[k] # x

IsDigit(c) == c \in 48..57

\* re.search(r"(\d{2}:\d{2}:\d{2})", value) matches at position i
TimeAt(value, i) ==
    /\ i + 7 <= Len(value)
    /\ \A k \in {0, 1, 3, 4, 6, 7} : IsDigit(value[i + k])
    /\ value[i + 2] = 58 /\ value[i + 5] = 58

\* extract_time_hms
ExtractTimeHms(value) ==
    IF \A i \in 1..Len(value) : ~TimeAt(value, i) THEN EmptyStr
    ELSE LET i == CHOOSE j \in 1..Len(value) :
                      TimeAt(value, j) /\ \A k \in 1..(j - 1) : ~TimeAt(value, k)
         IN  SubSeq(value, i, i + 7)

\* text.replace(",", ".")
CommaToPoint(text) == [i \in 1..Len(text) |-> IF text[i] = 44 THEN 46 ELSE text[i]]

AllDigits(text) == \A i \in 1..Len(text) : IsDigit(text[i])

\* float(text) accepts text: digits, with at most one point (no sign, exponent, inf
\* or nan occurs in the texts modelled)
FloatTextOk(text) ==
    LET parts == SplitAt(text, 46)
    IN  /\ Len(parts) <= 2
        /\ \A i \in 1..Len(parts) : AllDigits(parts[i])
        /\ \E i \in 1..Len(parts) : parts[i] # <<>>

\* digits, at most five of them, as a count of 10^-5
RECURSIVE FractionE5(_, _)
FractionE5(digits, width) ==
    IF width = 0 THEN 0
    ELSE IF digits = <<>> THEN 0
    ELSE (Head(digits) - 48) * (10 ^ (width - 1)) + FractionE5(Tail(digits), width - 1)

\* float(text) as a count of 10^-5 (exact for texts of at most five decimals, which
\* "%.5f" prints back digit for digit)
FloatTextE5(text) ==
    LET parts == SplitAt(text, 46)
    IN  DigitsValue(parts[1]) * 100000
            + (IF Len(parts) = 2 THEN FractionE5(parts[2], 5) ELSE 0)

\* parse_float raises ValueError
ParseFloatRaises(value) ==
    Strip(value) = <<>> \/ ~FloatTextOk(CommaToPoint(Strip(value)))

\* parse_float, as a count of 10^-5
ParseFloat(value) == FloatTextE5(CommaToPoint(Strip(value)))

RECURSIVE NatDigits(_)
NatDigits(n) == IF n < 10 THEN <<48 + n>> ELSE NatDigits(n \div 10) \o <<48 + (n % 10)>>

RECURSIVE PadDigits(_, _)
PadDigits(n, width) ==
    IF width = 0 THEN <<>> ELSE PadDigits(n \div 10, width - 1) \o <<48 + (n % 10)>>

\* f"{x:.5f}" of a count of 10^-5
Format5(e5) ==
    LET mag == IF e5 < 0 THEN -e5 ELSE e5
    IN  (IF e5 < 0 THEN <<45>> ELSE <<>>)
            \o NatDigits(mag \div 100000) \o <<46>> \o PadDigits(mag % 100000, 5)

\* a float of the model (an integer below 2^53) as a count of 10^-5
FloatE5(x) == x.lo * 100000

----------------------------------------------------------------------------
(* Prices: the FCR-N CSV text *)

Bom == <<65279>>

Newline == <<10>>

\* "Datum", "datum", "FCR-N Pris (EUR/MW)", "fcr-n pris (eur/mw)", "Fcr-N Pris (EUR/MW)",
\* "Tid", "Pris", ";"
TextDatum == <<68, 97, 116, 117, 109>>

TextDatumLower == <<100, 97, 116, 117, 109>>

TextFcrN == <<70, 67, 82, 45, 78, 32, 80, 114, 105, 115, 32, 40, 69, 85, 82, 47, 77, 87, 41>>

TextFcrNLower ==
    <<102, 99, 114, 45, 110, 32, 112, 114, 105, 115, 32, 40, 101, 117, 114, 47, 109, 119, 41>>

TextFcrNMixed == <<70, 99, 114, 45, 78, 32, 80, 114, 105, 115, 32, 40, 69, 85, 82, 47, 77, 87, 41>>

TextTid == <<84, 105, 100>>

TextPris == <<80, 114, 105, 115>>

Semi == <<59>>

\* "2024-01-01 HH:MM:00"
FcrDatum(h, m) ==
    <<50, 48, 50, 52, 45, 48, 49, 45, 48, 49, 32>> \o Strftime(h, m, 0)

\* data lines: a price with a comma, a second price for the same time, a later time,
\* an empty price, a price that is no number, a date without a time, a short row
FcrDataLines ==
    FcrDatum(1, 0) \o Semi \o <<49, 50, 44, 53>> \o Newline
        \o FcrDatum(1, 0) \o Semi \o <<32, 55, 32>> \o Newline
        \o FcrDatum(2, 0) \o Semi \o <<51, 46, 50, 53>> \o Newline
        \o FcrDatum(3, 0) \o Semi \o Newline
        \o FcrDatum(3, 0) \o Semi \o TextNA \o Newline
        \o Newline
        \o <<50, 48, 50, 52>> \o Semi \o <<49>> \o Newline
        \o FcrDatum(3, 0) \o Newline

\* The texts fetch_fcr_csv may return: nothing, a blank first line, a header of
\* blanks, a header without one of the two columns, headers with both.
FcrTexts ==
    { <<>>,
      Newline \o TextDatum \o Semi \o TextFcrN \o Newline \o FcrDataLines,
      <<32>> \o Newline \o FcrDataLines,
      TextDatum \o Semi \o TextPris \o Newline \o FcrDataLines,
      TextTid \o Semi \o TextFcrN \o Newline \o FcrDataLines,
      TextDatum \o Semi \o TextFcrN \o Newline \o FcrDataLines,
      Bom \o <<32>> \o TextDatumLower \o Semi \o TextTid \o Semi \o TextFcrNMixed \o <<32>>
          \o Newline \o FcrDatum(1, 0) \o Semi \o Semi \o <<49, 50, 44, 48>> \o Newline,
      TextFcrN \o Semi \o TextDatum }

----------------------------------------------------------------------------
(* Prices: parse_fcr_n_prices *)

\* lines = csv_text.lstrip("﻿").splitlines()
FcrLines(text) == SplitLines(LStripBom(text))

\* [h.strip().lstrip("﻿").lower() for h in header]
FcrHeader(line) ==
    [i \in 1..Len(CsvCells(line)) |-> Lower(LStripBom(Strip(CsvCells(line)[i])))]

\* the way parse_fcr_n_prices leaves its header part: "empty" (return {}), "no_datum"
\* and "no_price" (RuntimeError), "found"
FcrHeaderOutcome(text) ==
    IF FcrLines(text) = <<>> THEN "empty"
    ELSE IF CsvCells(FcrLines(text)[1]) = <<>> THEN "empty"
    ELSE IF IndexOf(FcrHeader(FcrLines(text)[1]), TextDatumLower) = 0 THEN "no_datum"
    ELSE IF IndexOf(FcrHeader(FcrLines(text)[1]), TextFcrNLower) = 0 THEN "no_price"
    ELSE "found"

Max(a, b) == IF a >= b THEN a ELSE b

\* a data row the loop passes over with continue
FcrRowSkipped(row, iTime, iPrice) ==
    IF row = <<>> THEN TRUE
    ELSE IF Len(row) < Max(iTime, iPrice) THEN TRUE
    ELSE IF Strip(row[iTime]) = <<>> \/ Strip(row[iPrice]) = <<>> THEN TRUE
    ELSE IF ExtractTimeHms(Strip(row[iTime])) = EmptyStr THEN TRUE
    ELSE ParseFloatRaises(Strip(row[iPrice]))

\* d[key] = value
DictSet(d, key, value) == (key :> value) @@ d

\* fetch_fcr_csv: the text of the response
FetchFcr ==
    /\ pcP = "fetch_fcr"
    /\ fcrText' \in FcrTexts
    /\ pcP' = "fcr_header"
    /\ UNCHANGED <<reader, idxTime, idxPrice, fcr, esettRows, eidx, dayAhead,
                   imbalanceUp, imbalanceDown, priceWritten, varsE, varsM, varsD, varsS>>

\* if not lines: return {} / if not header: return {}
FcrNoHeader ==
    /\ pcP = "fcr_header"
    /\ FcrHeaderOutcome(fcrText) = "empty"
    /\ pcP' = "fetch_esett"
    /\ UNCHANGED <<fcrText, reader, idxTime, idxPrice, fcr, esettRows, eidx, dayAhead,
                   imbalanceUp, imbalanceDown, priceWritten, varsE, varsM, varsD, varsS>>

\* raise RuntimeError("Could not find required FCR column: ..."): main ends
FcrMissingColumn ==
    /\ pcP = "fcr_header"
    /\ FcrHeaderOutcome(fcrText) \in {"no_datum", "no_price"}
    /\ pcP' = "aborted"
    /\ UNCHANGED <<fcrText, reader, idxTime, idxPrice, fcr, esettRows, eidx, dayAhead,
                   imbalanceUp, imbalanceDown, priceWritten, varsE, varsM, varsD, varsS>>

\* both lowered.index(...) succeed
FcrHeaderFound ==
    /\ pcP = "fcr_header"
    /\ FcrHeaderOutcome(fcrText) = "found"
    /\ idxTime' = IndexOf(FcrHeader(FcrLines(fcrText)[1]), TextDatumLower)
    /\ idxPrice' = IndexOf(FcrHeader(FcrLines(fcrText)[1]), TextFcrNLower)
    /\ reader' = Tail(FcrLines(fcrText))
    /\ pcP' = "fcr_rows"
    /\ UNCHANGED <<fcrText, fcr, esettRows, eidx, dayAhead,
                   imbalanceUp, imbalanceDown, priceWritten, varsE, varsM, varsD, varsS>>

\* for row in reader: ... continue
FcrRowSkip ==
    /\ pcP = "fcr_rows" /\ reader # <<>>
    /\ FcrRowSkipped(CsvCells(Head(reader)), idxTime, idxPrice)
    /\ reader' = Tail(reader)
    /\ UNCHANGED <<fcrText, idxTime, idxPrice, fcr, esettRows, eidx, dayAhead,
                   imbalanceUp, imbalanceDown, priceWritten, pcP, varsE, varsM, varsD, varsS>>

\* for row in reader: ... out[time_hms] = f"{parse_float(price_raw):.5f}"
FcrRowStore ==
    /\ pcP = "fcr_rows" /\ reader # <<>>
    /\ ~FcrRowSkipped(CsvCells(Head(reader)), idxTime, idxPrice)
    /\ LET row == CsvCells(Head(reader))
       IN  fcr' = DictSet(fcr, ExtractTimeHms(Strip(row[idxTime])),
                          Format5(ParseFloat(Strip(row[idxPrice]))))
    /\ reader' = Tail(reader)
    /\ UNCHANGED <<fcrText, idxTime, idxPrice, esettRows, eidx, dayAhead,
                   imbalanceUp, imbalanceDown, priceWritten, pcP, varsE, varsM, varsD, varsS>>

\* return out
FcrRowsEnd ==
    /\ pcP = "fcr_rows" /\ reader = <<>>
    /\ pcP' = "fetch_esett"
    /\ UNCHANGED <<fcrText, reader, idxTime, idxPrice, fcr, esettRows, eidx, dayAhead,
                   imbalanceUp, imbalanceDown, priceWritten, varsE, varsM, varsD, varsS>>

----------------------------------------------------------------------------
(* Prices: parse_esett_price_rows, build_rows and main *)

\* the record's timestampUTC string, parsed: "...T00:30:00Z"
UtcIso(s) == IsoVal((s * 30) \div 60, (s * 30) % 60, 0, TRUE, 0)

EsettRow(ts, tsUTC, sales, diff) ==
    [ timestamp |-> ts, timestampUTC |-> tsUTC,
      imblSalesPrice |-> sales, imblSpotDifferencePrice |-> diff ]

\* Records of the eSett response: as delivered (both timestamps), with timestampUTC
\* only, with no timestamp at all, with a timestamp that is no ISO string, with a
\* price that is no number.
EsettPool(kind) ==
    { EsettRow(LocalIso(kind, 1), UtcIso(1), NumVal(Num(0, 45)), NumVal(Num(0, 5))),
      EsettRow(LocalIso(kind, 3), UtcIso(3), NumVal(Num(0, 30)), Null),
      EsettRow(Null, UtcIso(2), NumVal(Num(0, 7)), NumVal(Num(0, 9))),
      EsettRow(Null, Null, NumVal(Num(0, 1)), NumVal(Num(0, 1))),
      EsettRow(TextVal(TextAbout), UtcIso(1), NumVal(Num(0, 45)), NumVal(Num(0, 5))),
      EsettRow(LocalIso(kind, 2), UtcIso(2), TextVal(TextNA), NumVal(Num(0, 5))) }

\* row.get("timestamp") or row.get("timestampUTC")
EsettTs(row) == IF Falsy(row.timestamp) THEN row.timestampUTC ELSE row.timestamp

\* datetime.fromisoformat(str(ts)) raises ValueError
PriceTimeRaises(v) == v.t # "iso"

\* local_time_hms of fetch_prices: the Europe/Stockholm wall clock of the parsed
\* datetime; astimezone reads a naive datetime in the machine's local time zone
PriceLocalTimeHms(v, host, kind) ==
    IF ~v.aware /\ host = "Europe/Stockholm" THEN Strftime(v.h, v.m, v.s)
    ELSE LET utc == v.h * 60 + v.m - (IF v.aware THEN v.off ELSE 0)
             local == utc + StockholmOffset(kind, utc)
         IN  Strftime((local \div 60) % 24, local % 60, v.s)

\* the try block raises ValueError: continue
EsettRaises(row) ==
    \/ PriceTimeRaises(EsettTs(row))
    \/ FloatRaises(row.imblSalesPrice)
    \/ FloatRaises(row.imblSpotDifferencePrice)

\* build_rows
BuildRows(f, da, up, down) ==
    LET all_times == SortedStrs(DOMAIN f \cup DOMAIN da \cup DOMAIN up \cup DOMAIN down)
        Get(d, t) == IF t \in DOMAIN d THEN d[t] ELSE EmptyStr
    IN  [i \in 1..Len(all_times) |->
            [ time |-> all_times[i],
              fcrn |-> Get(f, all_times[i]),
              day_ahead |-> Get(da, all_times[i]),
              imbalance_up |-> Get(up, all_times[i]),
              imbalance_down |-> Get(down, all_times[i]) ]]

\* fetch_esett_prices: the records of the response
FetchEsett ==
    /\ pcP = "fetch_esett"
    /\ esettRows' \in SeqsUpTo(EsettPool(dayKind), MaxEsett)
    /\ pcP' = "esett_rows"
    /\ UNCHANGED <<fcrText, reader, idxTime, idxPrice, fcr, eidx, dayAhead,
                   imbalanceUp, imbalanceDown, priceWritten, varsE, varsM, varsD, varsS>>

\* if not ts: continue / except (ValueError, TypeError): continue
EsettSkip ==
    /\ pcP = "esett_rows" /\ eidx < Len(esettRows)
    /\ Falsy(EsettTs(esettRows[eidx + 1])) \/ EsettRaises(esettRows[eidx + 1])
    /\ eidx' = eidx + 1
    /\ UNCHANGED <<fcrText, reader, idxTime, idxPrice, fcr, esettRows, dayAhead,
                   imbalanceUp, imbalanceDown, priceWritten, pcP, varsE, varsM, varsD, varsS>>

\* the loop body storing the three prices of a record
EsettStore ==
    /\ pcP = "esett_rows" /\ eidx < Len(esettRows)
    /\ ~Falsy(EsettTs(esettRows[eidx + 1])) /\ ~EsettRaises(esettRows[eidx + 1])
    /\ LET row == esettRows[eidx + 1]
           time_hms == PriceLocalTimeHms(EsettTs(row), hostTz, dayKind)
           imbl_sales == ToFloat(row.imblSalesPrice)
           imbl_spot_diff == ToFloat(row.imblSpotDifferencePrice)
           da_price == FAdd(imbl_sales, FNeg(imbl_spot_diff))
       IN  /\ dayAhead' = DictSet(dayAhead, time_hms, Format5(FloatE5(da_price)))
           /\ imbalanceUp' = DictSet(imbalanceUp, time_hms, Format5(FloatE5(imbl_sales)))
           /\ imbalanceDown' = DictSet(imbalanceDown, time_hms, Format5(FloatE5(imbl_sales)))
    /\ eidx' = eidx + 1
    /\ UNCHANGED <<fcrText, reader, idxTime, idxPrice, fcr, esettRows,
                   priceWritten, pcP, varsE, varsM, varsD, varsS>>

\* rows = build_rows(...); writer.writeheader(); writer.writerows(rows), both targets
WritePrices ==
    /\ pcP = "esett_rows" /\ eidx = Len(esettRows)
    /\ priceWritten' = [target \in {"public", "raw"} |->
                           BuildRows(fcr, dayAhead, imbalanceUp, imbalanceDown)]
    /\ pcP' = "done"
    /\ UNCHANGED <<fcrText, reader, idxTime, idxPrice, fcr, esettRows, eidx, dayAhead,
                   imbalanceUp, imbalanceDown, varsE, varsM, varsD, varsS>>

InitP ==
    /\ dayKind \in {"normal", "fallback", "spring"}
    /\ hostTz \in {"UTC", "Europe/Stockholm"}
    /\ IdleM
    /\ IdleD
    /\ IdleS
    /\ fcrText = <<>>
    /\ reader = <<>>
    /\ idxTime = 0
    /\ idxPrice = 0
    /\ fcr = EmptyDict
    /\ esettRows = <<>>
    /\ eidx = 0
    /\ dayAhead = EmptyDict
    /\ imbalanceUp = EmptyDict
    /\ imbalanceDown = EmptyDict
    /\ priceWritten = [target \in {} |-> <<>>]
    /\ pcP = "fetch_fcr"

NextP ==
    \/ FetchFcr \/ FcrNoHeader \/ FcrMissingColumn \/ FcrHeaderFound
    \/ FcrRowSkip \/ FcrRowStore \/ FcrRowsEnd
    \/ FetchEsett \/ EsettSkip \/ EsettStore \/ WritePrices

SpecPrice == InitP /\ [][NextP]_vars

----------------------------------------------------------------------------
(* Prices: properties *)

\* the names in the first line of the text, blanks and case aside
HeaderNames(text) ==
    LET lines == SplitAt(LStripBom(text), 10)
    IN  {Lower(Strip(SplitAt(lines[1], 59)[i])) : i \in 1..Len(SplitAt(lines[1], 59))}

ColumnAbsent(text) ==
    TextDatumLower \notin HeaderNames(text) \/ TextFcrNLower \notin HeaderNames(text)

HeaderParsed == pcP \notin {"idle", "fetch_fcr", "fcr_header"}

NothingWritten == DOMAIN priceWritten = {}

\* C5: whenever the CSV text lacks the Datum or the FCR-N price column,
\* empty text and a blank header line included, parse_fcr_n_prices raises and the
\* run writes no output.
C5_AbsentColumnRaises ==
    (HeaderParsed /\ ColumnAbsent(fcrText)) => (pcP = "aborted" /\ NothingWritten)

\* C8: a record carrying both timestamp and timestampUTC whose prices
\* are stored has them stored under the Europe/Stockholm time of its timestampUTC.
C8_KeyFromTimestampUTC ==
    (pcP = "esett_rows" /\ eidx > 0) =>
        LET row == esettRows[eidx]
            key == PriceLocalTimeHms(row.timestampUTC, hostTz, dayKind)
        IN  (/\ ~Falsy(row.timestamp) /\ ~Falsy(row.timestampUTC)
             /\ ~EsettRaises(row)) =>
                /\ key \in DOMAIN dayAhead
                /\ dayAhead[key] =
                      Format5(FloatE5(FAdd(ToFloat(row.imblSalesPrice),
                                           FNeg(ToFloat(row.imblSpotDifferencePrice)))))

----------------------------------------------------------------------------
(* fetch_all.py: the day-range driver *)

\* the scripts of procs, in the order of the list
Scripts == <<"fetch_production.py", "fetch_consumption.py", "fetch_prices.py">>

\* the values of proc.returncode that occur
ReturnCodes == {0, 1, 2}

\* Day arguments: a date is its number (1..MaxDays); OmittedDay for no end_day
\* argument, BadDay for a string date.fromisoformat rejects
OmittedDay == 0

BadDay == -1

Days == 1..MaxDays

NoProc == [st |-> "none", rc |-> 0, waited |-> FALSE]

\* parse_day raises SystemExit
ParseDayRaises(value) == value = BadDay

\* end_day = parse_day(args.end_day) if args.end_day else start_day
EndDayOf(args) == IF args.end_day = OmittedDay THEN args.start_day ELSE args.end_day

\* proc.wait() returns at once, whether or not the process has terminated
WaitReturnsAtOnce(p) == p.st # "none"

\* proc.wait() returns: the process has terminated
WaitReturns(p) == p.st = "exited"

\* a later zero return code resets the exit code
UpdateExitCodeLatest(old, returncode) == returncode

\* if proc.returncode != 0: exit_code = proc.returncode
UpdateExitCode(old, returncode) == IF returncode # 0 THEN returncode ELSE old

\* parse_day(...) raises SystemExit("Invalid date format: ...")
DriverRejectDate ==
    /\ pcD = "args"
    /\ \/ ParseDayRaises(argv.start_day)
       \/ argv.end_day # OmittedDay /\ ParseDayRaises(argv.end_day)
    /\ pcD' = "rejected"
    /\ UNCHANGED <<argv, start_day, end_day, current_day, launched, waitPos, procs,
                   exit_code, varsM, varsE, varsP, varsS>>

\* raise SystemExit("end_day (...) must be on or after start_day (...)")
DriverRejectRange ==
    /\ pcD = "args"
    /\ ~ParseDayRaises(argv.start_day)
    /\ argv.end_day = OmittedDay \/ ~ParseDayRaises(argv.end_day)
    /\ EndDayOf(argv) < argv.start_day
    /\ pcD' = "rejected"
    /\ UNCHANGED <<argv, start_day, end_day, current_day, launched, waitPos, procs,
                   exit_code, varsM, varsE, varsP, varsS>>

\* exit_code = 0; the first day of iter_days
DriverStart ==
    /\ pcD = "args"
    /\ ~ParseDayRaises(argv.start_day)
    /\ argv.end_day = OmittedDay \/ ~ParseDayRaises(argv.end_day)
    /\ EndDayOf(argv) >= argv.start_day
    /\ start_day' = argv.start_day
    /\ end_day' = EndDayOf(argv)
    /\ current_day' = argv.start_day
    /\ exit_code' = 0
    /\ pcD' = "day"
    /\ UNCHANGED <<argv, launched, waitPos, procs, varsM, varsE, varsP, varsS>>

\* run_script(script, day_str): the next subprocess.Popen of the list procs
DriverLaunch ==
    /\ pcD = "day"
    /\ launched < Len(Scripts)
    /\ procs' = [procs EXCEPT ![current_day][Scripts[launched + 1]].st = "running"]
    /\ launched' = launched + 1
    /\ UNCHANGED <<argv, start_day, end_day, current_day, waitPos, exit_code, pcD,
                   varsM, varsE, varsP, varsS>>

\* a running subprocess terminates, with any return code
SubprocessExit ==
    /\ pcD = "day"
    /\ \E d \in Days, s \in {Scripts[i] : i \in 1..Len(Scripts)}, code \in ReturnCodes :
          /\ procs[d][s].st = "running"
          /\ procs' = [procs EXCEPT ![d][s].st = "exited", ![d][s].rc = code]
    /\ UNCHANGED <<argv, start_day, end_day, current_day, launched, waitPos, exit_code,
                   pcD, varsM, varsE, varsP, varsS>>

\* proc.wait(); if proc.returncode != 0: exit_code = proc.returncode
DriverWait ==
    /\ pcD = "day"
    /\ launched = Len(Scripts)
    /\ waitPos < Len(Scripts)
    /\ WaitReturns(procs[current_day][Scripts[waitPos + 1]])
    /\ procs' = [procs EXCEPT ![current_day][Scripts[waitPos + 1]].waited = TRUE]
    /\ exit_code' = UpdateExitCode(exit_code, procs[current_day][Scripts[waitPos + 1]].rc)
    /\ waitPos' = waitPos + 1
    /\ UNCHANGED <<argv, start_day, end_day, current_day, launched, pcD,
                   varsM, varsE, varsP, varsS>>

\* iter_days: current += timedelta(days=1), while current <= end
DriverNextDay ==
    /\ pcD = "day"
    /\ waitPos = Len(Scripts)
    /\ current_day + 1 <= end_day
    /\ current_day' = current_day + 1
    /\ launched' = 0
    /\ waitPos' = 0
    /\ UNCHANGED <<argv, start_day, end_day, procs, exit_code, pcD,
                   varsM, varsE, varsP, varsS>>

\* sys.exit(exit_code)
DriverExit ==
    /\ pcD = "day"
    /\ waitPos = Len(Scripts)
    /\ ~(current_day + 1 <= end_day)
    /\ pcD' = "exited"
    /\ UNCHANGED <<argv, start_day, end_day, current_day, launched, waitPos, procs,
                   exit_code, varsM, varsE, varsP, varsS>>

InitD ==
    /\ dayKind = "normal"
    /\ hostTz = "UTC"
    /\ IdleM
    /\ IdleP
    /\ IdleS
    /\ argv \in [start_day : Days \cup {BadDay}, end_day : Days \cup {BadDay, OmittedDay}]
    /\ start_day = 0
    /\ end_day = 0
    /\ current_day = 0
    /\ launched = 0
    /\ waitPos = 0
    /\ procs = [d \in Days |-> [s \in {Scripts[i] : i \in 1..Len(Scripts)} |-> NoProc]]
    /\ exit_code = 0
    /\ pcD = "args"

NextD ==
    \/ DriverRejectDate \/ DriverRejectRange \/ DriverStart \/ DriverLaunch
    \/ SubprocessExit \/ DriverWait \/ DriverNextDay \/ DriverExit

SpecDriver == InitD /\ [][NextD]_vars

----------------------------------------------------------------------------
(* fetch_all.py: properties *)

\* the subprocesses of the range in observation order: days ascending and within a
\* day production, consumption, prices
ObservedCount == 3 * (end_day - start_day + 1)

ObservedCode(i) == procs[start_day + ((i - 1) \div 3)][Scripts[((i - 1) % 3) + 1]].rc

\* C6: the driver, run on a range of days, exits with 0 if and only if every
\* subprocess of every day returned 0, and otherwise with the return code of the
\* last subprocess in observation order that returned non-zero.
C6_ExitCodeIsLastNonZero ==
    pcD = "exited" =>
        /\ exit_code = 0 <=> \A i \in 1..ObservedCount : ObservedCode(i) = 0
        /\ \A i \in 1..ObservedCount :
              (/\ ObservedCode(i) # 0
               /\ \A k \in (i + 1)..ObservedCount : ObservedCode(k) = 0)
                  => exit_code = ObservedCode(i)

\* C6 witness: the run of two days has exited; the first subprocess of the first day
\* returned 2, a later one 1, and every subprocess after that 0.
C6_Witness ==
    /\ pcD = "exited"
    /\ end_day = start_day + 1
    /\ ObservedCode(1) = 2
    /\ ObservedCode(3) = 1
    /\ \A i \in 4..ObservedCount : ObservedCode(i) = 0
    /\ exit_code = 1

\* C7: a subprocess is started only for a day of the range and only when every
\* subprocess of every earlier day of the range has terminated and been waited for;
\* when the driver exits, all three subprocesses of every day of the range have been
\* launched, have terminated and have been waited for, whatever they returned.
C7_DaysOneAfterAnother ==
    /\ \A d \in Days, i \in 1..3 :
          procs[d][Scripts[i]].st # "none" =>
              /\ d \in start_day..end_day
              /\ \A e \in start_day..(d - 1), k \in 1..3 :
                    /\ procs[e][Scripts[k]].st = "exited"
                    /\ procs[e][Scripts[k]].waited
    /\ pcD = "exited" =>
          \A d \in start_day..end_day, i \in 1..3 :
              /\ procs[d][Scripts[i]].st = "exited"
              /\ procs[d][Scripts[i]].waited

\* C7 witness: on the second day the prices subprocess has terminated while the
\* production subprocess still runs, after a subprocess of the first day returned
\* non-zero.
C7_Witness ==
    /\ current_day = start_day + 1
    /\ procs[start_day][Scripts[1]].rc # 0
    /\ procs[current_day][Scripts[1]].st = "running"
    /\ procs[current_day][Scripts[3]].st = "exited"

----------------------------------------------------------------------------
(* split_frequency_data.py *)

TextTime == <<116, 105, 109, 101>>

TextFrequency == <<102, 114, 101, 113, 117, 101, 110, 99, 121>>

\* writer.writeheader()
HeaderLine == [time |-> TextTime, frequency |-> TextFrequency]

\* "2024-01-0d"
DayText(d) == <<50, 48, 50, 52, 45, 48, 49, 45, 48, 48 + d>>

\* "50.0n"
FreqText(n) == <<53, 48, 46, 48, 48 + n>>

InputRow(ts, freq) == [timestamp_fixed |-> ts, frequency |-> freq]

\* Rows the DictReader yields: well-formed rows of two days (one with blanks around
\* the timestamp, one with fractional seconds and blanks around the frequency), a
\* row with no day before the T and no frequency, rows without timestamp (absent,
\* blank) and a row whose timestamp has no T.
InputPool ==
    { InputRow(TextVal(DayText(1) \o <<84>> \o Strftime(0, 0, 1)), TextVal(FreqText(1))),
      InputRow(TextVal(<<32>> \o DayText(1) \o <<84>> \o Strftime(0, 0, 2) \o <<32>>),
               TextVal(FreqText(2))),
      InputRow(TextVal(DayText(2) \o <<84>> \o Strftime(0, 0, 1) \o <<46, 49, 50, 51>>),
               TextVal(<<32>> \o FreqText(3) \o <<32>>)),
      InputRow(TextVal(<<84>> \o Strftime(0, 0, 4)), Null),
      InputRow(Null, TextVal(FreqText(5))),
      InputRow(TextVal(<<32, 32>>), TextVal(FreqText(6))),
      InputRow(TextVal(DayText(1) \o <<32>> \o Strftime(0, 0, 7)), TextVal(FreqText(7))) }

\* reader.fieldnames of the inputs: the two columns, with a further column, with
\* timestamp_fixed missing, of an empty file
FieldNames ==
    { {"timestamp_fixed", "frequency"},
      {"timestamp", "timestamp_fixed", "frequency"},
      {"timestamp", "frequency"},
      {} }

\* (row.get(name) or "").strip()
Cell(v) == IF Falsy(v) THEN EmptyStr ELSE Strip(v.chars)

\* value[:8]
FirstEight(text) == SubSeq(text, 1, IF Len(text) < 8 THEN Len(text) ELSE 8)

\* split_timestamp raises ValueError: "T" not in raw
SplitTimestampRaises(value) == IndexOf(Strip(value), 84) = 0

\* split_timestamp: raw.split("T", 1), time_part[:8]
SplitTimestamp(value) ==
    LET raw == Strip(value)
        i == IndexOf(raw, 84)
    IN  [day |-> SubSeq(raw, 1, i - 1), time |-> FirstEight(SubSeq(raw, i + 1, Len(raw)))]

\* the row replaces what the file holds
WriteRowOver(lines, row) == <<row>>

\* writer.writerow(row)
WriteRow(lines, row) == Append(lines, row)

\* no day is found to have a writer
HasWriterNever(ws, day) == FALSE

\* writers.get(day) is not None
HasWriter(ws, day) == day \in ws

\* raise SystemExit("Input file does not exist: ...")
SplitNoInput ==
    /\ pcS = "start"
    /\ ~inputFile.exists
    /\ pcS' = "exit"
    /\ UNCHANGED <<inputFile, srcPos, writers, open_files, closed, outFiles, rows_by_day,
                   bad_rows, varsM, varsE, varsP, varsD>>

\* raise SystemExit("Input CSV must include columns: timestamp_fixed, frequency")
SplitBadSchema ==
    /\ pcS = "start"
    /\ inputFile.exists
    /\ ~({"timestamp_fixed", "frequency"} \subseteq inputFile.fieldnames)
    /\ pcS' = "exit"
    /\ UNCHANGED <<inputFile, srcPos, writers, open_files, closed, outFiles, rows_by_day,
                   bad_rows, varsM, varsE, varsP, varsD>>

\* the required columns are there: the loop begins
SplitBegin ==
    /\ pcS = "start"
    /\ inputFile.exists
    /\ {"timestamp_fixed", "frequency"} \subseteq inputFile.fieldnames
    /\ pcS' = "rows"
    /\ UNCHANGED <<inputFile, srcPos, writers, open_files, closed, outFiles, rows_by_day,
                   bad_rows, varsM, varsE, varsP, varsD>>

\* if not timestamp: bad_rows += 1; continue
SplitSkipEmpty ==
    /\ pcS = "rows" /\ srcPos < Len(inputFile.rows)
    /\ Cell(inputFile.rows[srcPos + 1].timestamp_fixed) = EmptyStr
    /\ bad_rows' = bad_rows + 1
    /\ srcPos' = srcPos + 1
    /\ UNCHANGED <<inputFile, writers, open_files, closed, outFiles, rows_by_day, pcS,
                   varsM, varsE, varsP, varsD>>

\* except ValueError: bad_rows += 1; continue
SplitSkipNoT ==
    /\ pcS = "rows" /\ srcPos < Len(inputFile.rows)
    /\ Cell(inputFile.rows[srcPos + 1].timestamp_fixed) # EmptyStr
    /\ SplitTimestampRaises(Cell(inputFile.rows[srcPos + 1].timestamp_fixed))
    /\ bad_rows' = bad_rows + 1
    /\ srcPos' = srcPos + 1
    /\ UNCHANGED <<inputFile, writers, open_files, closed, outFiles, rows_by_day, pcS,
                   varsM, varsE, varsP, varsD>>

\* writers.get(day) is None: the file of the day is opened for writing and gets the
\* header; then the row is written
SplitWriteNew ==
    /\ pcS = "rows" /\ srcPos < Len(inputFile.rows)
    /\ Cell(inputFile.rows[srcPos + 1].timestamp_fixed) # EmptyStr
    /\ ~SplitTimestampRaises(Cell(inputFile.rows[srcPos + 1].timestamp_fixed))
    /\ LET row == inputFile.rows[srcPos + 1]
           parts == SplitTimestamp(Cell(row.timestamp_fixed))
           line == [time |-> parts.time, frequency |-> Cell(row.frequency)]
       IN  /\ ~HasWriter(writers, parts.day)
           /\ writers' = writers \cup {parts.day}
           /\ open_files' = Append(open_files, parts.day)
           /\ outFiles' = (parts.day :> WriteRow(<<HeaderLine>>, line)) @@ outFiles
           /\ rows_by_day' = (parts.day :> 1) @@ rows_by_day
    /\ srcPos' = srcPos + 1
    /\ UNCHANGED <<inputFile, closed, bad_rows, pcS, varsM, varsE, varsP, varsD>>

\* the writer of the day exists: the row is written
SplitWriteOpen ==
    /\ pcS = "rows" /\ srcPos < Len(inputFile.rows)
    /\ Cell(inputFile.rows[srcPos + 1].timestamp_fixed) # EmptyStr
    /\ ~SplitTimestampRaises(Cell(inputFile.rows[srcPos + 1].timestamp_fixed))
    /\ LET row == inputFile.rows[srcPos + 1]
           parts == SplitTimestamp(Cell(row.timestamp_fixed))
           line == [time |-> parts.time, frequency |-> Cell(row.frequency)]
       IN  /\ HasWriter(writers, parts.day)
           /\ outFiles' = (parts.day :> WriteRow(outFiles[parts.day], line)) @@ outFiles
           /\ rows_by_day' = (parts.day :> rows_by_day[parts.day] + 1) @@ rows_by_day
    /\ srcPos' = srcPos + 1
    /\ UNCHANGED <<inputFile, writers, open_files, closed, bad_rows, pcS,
                   varsM, varsE, varsP, varsD>>

\* for file_handle in open_files.values(): file_handle.close()
SplitClose ==
    /\ pcS = "rows" /\ srcPos = Len(inputFile.rows)
    /\ closed < Len(open_files)
    /\ closed' = closed + 1
    /\ UNCHANGED <<inputFile, srcPos, writers, open_files, outFiles, rows_by_day,
                   bad_rows, pcS, varsM, varsE, varsP, varsD>>

\* the report is printed; main returns
SplitReport ==
    /\ pcS = "rows" /\ srcPos = Len(inputFile.rows)
    /\ closed = Len(open_files)
    /\ pcS' = "done"
    /\ UNCHANGED <<inputFile, srcPos, writers, open_files, closed, outFiles, rows_by_day,
                   bad_rows, varsM, varsE, varsP, varsD>>

InitS ==
    /\ dayKind = "normal"
    /\ hostTz = "UTC"
    /\ IdleM
    /\ IdleP
    /\ IdleD
    /\ inputFile \in
          {[exists |-> FALSE, fieldnames |-> {}, rows |-> <<>>]}
          \cup [exists : {TRUE}, fieldnames : FieldNames,
                rows : SeqsUpTo(InputPool, MaxInput)]
    /\ srcPos = 0
    /\ writers = {}
    /\ open_files = <<>>
    /\ closed = 0
    /\ outFiles = [day \in {} |-> <<>>]
    /\ rows_by_day = [day \in {} |-> 0]
    /\ bad_rows = 0
    /\ pcS = "start"

NextS ==
    \/ SplitNoInput \/ SplitBadSchema \/ SplitBegin
    \/ SplitSkipEmpty \/ SplitSkipNoT \/ SplitWriteNew \/ SplitWriteOpen
    \/ SplitClose \/ SplitReport

SpecSplit == InitS /\ [][NextS]_vars

----------------------------------------------------------------------------
(* split_frequency_data.py: properties *)

\* timestamp_fixed is non-empty and contains the T separator
HasDayAndTime(row) ==
    /\ row.timestamp_fixed.t = "text"
    /\ \E i \in 1..Len(row.timestamp_fixed.chars) : row.timestamp_fixed.chars[i] = 84

DayOfRow(row) == SplitTimestamp(row.timestamp_fixed.chars).day

PairOfRow(row) ==
    [ time |-> SplitTimestamp(row.timestamp_fixed.chars).time,
      frequency |-> IF row.frequency.t = "text" THEN Strip(row.frequency.chars) ELSE EmptyStr ]

\* the pairs of the rows of a day among rs, in the order of rs
RECURSIVE PairsOfDay(_, _)
PairsOfDay(rs, day) ==
    IF rs = <<>> THEN <<>>
    ELSE IF HasDayAndTime(Head(rs)) /\ DayOfRow(Head(rs)) = day
         THEN <<PairOfRow(Head(rs))>> \o PairsOfDay(Tail(rs), day)
         ELSE PairsOfDay(Tail(rs), day)

RECURSIVE SumOver(_, _)
SumOver(f, S) ==
    IF S = {} THEN 0
    ELSE LET x == CHOOSE y \in S : TRUE IN f[x] + SumOver(f, S \ {x})

\* the rows the loop has consumed
RowsRead == SubSeq(inputFile.rows, 1, srcPos)

\* C10: at every point of the run, the destinations are those of the days of the
\* rows read whose timestamp_fixed is non-empty and contains T; each holds, after
\* its header, the (time, frequency) pairs of the rows of its day in input order;
\* bad_rows counts every other row read, and rows written plus rows skipped equals
\* rows read.
C10_SplitRoundTrip ==
    pcS \in {"rows", "done"} =>
        /\ DOMAIN outFiles =
              {DayOfRow(RowsRead[i]) : i \in {k \in 1..srcPos : HasDayAndTime(RowsRead[k])}}
        /\ \A day \in DOMAIN outFiles :
              /\ Head(outFiles[day]) = HeaderLine
              /\ Tail(outFiles[day]) = PairsOfDay(RowsRead, day)
              /\ rows_by_day[day] = Len(PairsOfDay(RowsRead, day))
        /\ bad_rows = Cardinality({k \in 1..srcPos : ~HasDayAndTime(RowsRead[k])})
        /\ SumOver(rows_by_day, DOMAIN rows_by_day) + bad_rows = srcPos
        /\ pcS = "done" => srcPos = Len(inputFile.rows)

\* C10 witness: a finished run over interleaved days with a skipped row: one day got
\* two rows, with a row of another day between them.
C10_Witness ==
    /\ pcS = "done"
    /\ bad_rows = 1
    /\ Len(open_files) = 2
    /\ rows_by_day[open_files[1]] = 2
    /\ HasDayAndTime(inputFile.rows[Len(inputFile.rows)])
    /\ DayOfRow(inputFile.rows[Len(inputFile.rows)]) = open_files[1]

\* the days of the rows of rs that have a day and a time, each once, in the order of
\* their first row
RECURSIVE DaysInOrder(_, _)
DaysInOrder(rs, seen) ==
    IF rs = <<>> THEN <<>>
    ELSE IF HasDayAndTime(Head(rs)) /\ DayOfRow(Head(rs)) \notin seen
         THEN <<DayOfRow(Head(rs))>> \o DaysInOrder(Tail(rs), seen \cup {DayOfRow(Head(rs))})
         ELSE DaysInOrder(Tail(rs), seen)

\* The destinations opened so far are those of the days of the valid rows read, each
\* opened once, in the order of the first valid row of each day; each holds its header
\* and every row written to it; none is closed before the input is exhausted, and
\* all are closed when the run is done.
LifecycleState ==
    pcS \in {"rows", "done"} =>
        /\ open_files = DaysInOrder(RowsRead, {})
        /\ writers = {open_files[i] : i \in 1..Len(open_files)}
        /\ DOMAIN outFiles = writers
        /\ \A day \in writers :
              /\ Head(outFiles[day]) = HeaderLine
              /\ Len(outFiles[day]) = 1 + Len(PairsOfDay(RowsRead, day))
        /\ closed \in 0..Len(open_files)
        /\ closed > 0 => srcPos = Len(inputFile.rows)
        /\ pcS = "done" => closed = Len(open_files)

\* A step opens a destination only for a day that had none, keeps every destination
\* opened before, only appends to a file, and never re-opens a closed handle.
LifecycleStep ==
    /\ Len(open_files') >= Len(open_files)
    /\ SubSeq(open_files', 1, Len(open_files)) = open_files
    /\ \A i \in (Len(open_files) + 1)..Len(open_files') :
          open_files'[i] \notin DOMAIN outFiles
    /\ \A day \in DOMAIN outFiles :
          /\ day \in DOMAIN outFiles'
          /\ Len(outFiles'[day]) >= Len(outFiles[day])
          /\ SubSeq(outFiles'[day], 1, Len(outFiles[day])) = outFiles[day]
    /\ closed' >= closed

\* C11: the destination of a day is opened, and gets its header, exactly once, at
\* the first valid row of the day; it is never opened again or truncated when rows
\* of the day come back after rows of another day; every opened destination stays
\* open until the input is exhausted; when the run is done every opened destination
\* has been closed.
C11_DestinationLifecycle == []LifecycleState /\ [][LifecycleStep]_vars

\* C11 witness: a finished run in which rows of the first day came back after a row
\* of a second day: two destinations were opened and both have been closed.
C11_Witness ==
    /\ pcS = "done"
    /\ Len(inputFile.rows) >= 3
    /\ \A i \in 1..3 : HasDayAndTime(inputFile.rows[i])
    /\ DayOfRow(inputFile.rows[1]) # DayOfRow(inputFile.rows[2])
    /\ DayOfRow(inputFile.rows[3]) = DayOfRow(inputFile.rows[1])
    /\ Len(open_files) = 2
    /\ closed = 2
    /\ Len(outFiles[open_files[1]]) >= 3

====
